---- MODULE Spec2Model ----
(***************************************************************************)
(* Model of PositionalBinaryTree (src/positional_binary_tree.py): a heap   *)
(* of _Node objects, a set of container objects each with _root and _size, *)
(* and the Position handles (container, node) that callers hold.           *)
(***************************************************************************)
EXTENDS Integers, FiniteSets, Sequences, TLC

\* ------------------------------------------------------------------ bounds

\* number of _Node objects the callers may create in one run
MaxNodes == 2
\* largest |_size| a call may leave in a container (_size is an unbounded int)
MaxSize == 3

\* number of _Node objects of the trees built by add_root/add_left/add_right
\* alone: the traversal test of positional_binary_tree.py builds seven
MaxBuild == 7

\* number of _Node objects created in a run on a single container
MaxSingle == 3

\* the container objects of a run, named as in src/main.py
Trees == {"tree", "t1", "t2"}
\* an argument of attach that is not a PositionalBinaryTree
NotATree == "notatree"
\* element payloads
Elems == {"A", "B"}
NoElem == "-"

\* the objects of a run, and one more: the outcome of a call made when
\* MaxNodes objects exist is then defined, though no run takes that step
Nodes == 1..(MaxNodes + 1)
\* Python's None, as a node reference
None == 0

\* a Position object: the pair (_container, _node)
Position(t, n) == [container |-> t, node |-> n]
\* Python's None, passed or returned where a Position is expected
NoPosition == [container |-> "None", node |-> None]

VARIABLES
    root,      \* root[t]    : t._root (a node or None)
    size,      \* size[t]    : t._size
    element,   \* element[n] : n._element
    parent,    \* parent[n]  : n._parent
    left,      \* left[n]    : n._left
    right,     \* right[n]   : n._right
    nalloc,    \* number of _Node objects created so far
    issued,    \* the Position objects returned to callers so far
    deleted,   \* the Positions p for which p._container.delete(p) has returned
    delete_acted, \* whether some call of delete has changed an object
    last       \* the latest call that changed an object: its name, container,
               \* Position argument and outcome

heapvars == <<root, size, element, parent, left, right, nalloc>>
vars ==
    <<root, size, element, parent, left, right, nalloc, issued, deleted,
      delete_acted, last>>

\* the objects' fields as one value, so that a method is a function of it
Heap ==
    [root |-> root, size |-> size, element |-> element, parent |-> parent,
     left |-> left, right |-> right, nalloc |-> nalloc]

\* ------------------------------------------------------------ return values

RetNone == [pos |-> NoPosition, elem |-> NoElem, num |-> 0, flag |-> FALSE]
RetPos(p) == [RetNone EXCEPT !.pos = p]
RetElem(e) == [RetNone EXCEPT !.elem = e]
RetNum(k) == [RetNone EXCEPT !.num = k]
RetFlag(b) == [RetNone EXCEPT !.flag = b]

\* the outcome of a call: the heap it leaves, "ok" or the error raised, and
\* the value returned
Res(h, status, ret) == [h |-> h, status |-> status, ret |-> ret]

Errors ==
    {"TypeError", "InvalidPosition", "RootExists", "ChildExists",
     "TwoChildren", "NotLeaf", "AttributeError", "ValueError"}

\* ------------------------------------------------------------------ methods

\* _validate: "ok", or the error it raises
validate(h, t, p) ==
    IF p = NoPosition THEN "TypeError"
    ELSE IF p.container # t THEN "InvalidPosition"
    ELSE IF h.parent[p.node] = p.node THEN "InvalidPosition"
    ELSE "ok"

\* _make_position
make_position(t, n) == IF n # None THEN Position(t, n) ELSE NoPosition

\* _Node(e, parent=par): the next fresh object
NewNode(h, e, par) ==
    LET n == h.nalloc + 1
    IN  [h EXCEPT !.element[n] = e, !.parent[n] = par, !.left[n] = None,
                  !.right[n] = None, !.nalloc = n]

\* Position.element
element_of(h, p) == h.element[p.node]

\* Position.__eq__ applied by `a == b` where either side may be None
position_eq(a, b) ==
    IF a = NoPosition \/ b = NoPosition THEN a = NoPosition /\ b = NoPosition
    ELSE a.node = b.node

\* __len__ as the builtin len() calls it: len() raises ValueError when
\* __len__ returns a negative number
len(h, t) ==
    IF h.size[t] < 0 THEN Res(h, "ValueError", RetNone)
    ELSE Res(h, "ok", RetNum(h.size[t]))

is_empty(h, t) == Res(h, "ok", RetFlag(h.size[t] = 0))

tree_root(h, t) == Res(h, "ok", RetPos(make_position(t, h.root[t])))

tree_parent(h, t, p) ==
    LET v == validate(h, t, p)
    IN  IF v # "ok" THEN Res(h, v, RetNone)
        ELSE Res(h, "ok", RetPos(make_position(t, h.parent[p.node])))

tree_left(h, t, p) ==
    LET v == validate(h, t, p)
    IN  IF v # "ok" THEN Res(h, v, RetNone)
        ELSE Res(h, "ok", RetPos(make_position(t, h.left[p.node])))

tree_right(h, t, p) ==
    LET v == validate(h, t, p)
    IN  IF v # "ok" THEN Res(h, v, RetNone)
        ELSE Res(h, "ok", RetPos(make_position(t, h.right[p.node])))

\* num_children counting the left slot only
num_children_left_only(h, t, p) ==
    LET v == validate(h, t, p)
    IN  IF v # "ok" THEN Res(h, v, RetNone)
        ELSE Res(h, "ok", RetNum(IF h.left[p.node] # None THEN 1 ELSE 0))

num_children(h, t, p) ==
    LET v == validate(h, t, p)
    IN  IF v # "ok" THEN Res(h, v, RetNone)
        ELSE Res(h, "ok",
                 RetNum((IF h.left[p.node] # None THEN 1 ELSE 0)
                        + (IF h.right[p.node] # None THEN 1 ELSE 0)))

is_root(h, t, p) ==
    Res(h, "ok", RetFlag(position_eq(tree_root(h, t).ret.pos, p)))

is_leaf(h, t, p) ==
    LET c == num_children(h, t, p)
    IN  IF c.status # "ok" THEN c ELSE Res(h, "ok", RetFlag(c.ret.num = 0))

add_root(h, t, e) ==
    IF h.root[t] # None THEN Res(h, "RootExists", RetNone)
    ELSE LET h1 == [h EXCEPT !.size[t] = 1]
             h2 == NewNode(h1, e, None)
             h3 == [h2 EXCEPT !.root[t] = h2.nalloc]
         IN  Res(h3, "ok", RetPos(make_position(t, h3.root[t])))

\* add_left testing the other slot for occupancy
add_left_other_slot(h, t, p, e) ==
    LET v == validate(h, t, p)
        node == p.node
    IN  IF v # "ok" THEN Res(h, v, RetNone)
        ELSE IF h.right[node] # None THEN Res(h, "ChildExists", RetNone)
        ELSE LET h1 == [h EXCEPT !.size[t] = @ + 1]
                 h2 == NewNode(h1, e, node)
                 h3 == [h2 EXCEPT !.left[node] = h2.nalloc]
             IN  Res(h3, "ok", RetPos(make_position(t, h3.left[node])))

add_left(h, t, p, e) ==
    LET v == validate(h, t, p)
        node == p.node
    IN  IF v # "ok" THEN Res(h, v, RetNone)
        ELSE IF h.left[node] # None THEN Res(h, "ChildExists", RetNone)
        ELSE LET h1 == [h EXCEPT !.size[t] = @ + 1]
                 h2 == NewNode(h1, e, node)
                 h3 == [h2 EXCEPT !.left[node] = h2.nalloc]
             IN  Res(h3, "ok", RetPos(make_position(t, h3.left[node])))

add_right(h, t, p, e) ==
    LET v == validate(h, t, p)
        node == p.node
    IN  IF v # "ok" THEN Res(h, v, RetNone)
        ELSE IF h.right[node] # None THEN Res(h, "ChildExists", RetNone)
        ELSE LET h1 == [h EXCEPT !.size[t] = @ + 1]
                 h2 == NewNode(h1, e, node)
                 h3 == [h2 EXCEPT !.right[node] = h2.nalloc]
             IN  Res(h3, "ok", RetPos(make_position(t, h3.right[node])))

\* replace returning the element it has just stored
replace_returns_new(h, t, p, e) ==
    LET v == validate(h, t, p)
    IN  IF v # "ok" THEN Res(h, v, RetNone)
        ELSE Res([h EXCEPT !.element[p.node] = e], "ok", RetElem(e))

replace(h, t, p, e) ==
    LET v == validate(h, t, p)
    IN  IF v # "ok" THEN Res(h, v, RetNone)
        ELSE Res([h EXCEPT !.element[p.node] = e], "ok",
                 RetElem(h.element[p.node]))

\* delete, lines 126-130: unlink node from its parent
delete_unlink(h, node, child) ==
    LET par == h.parent[node]
    IN  IF par = None THEN Res(h, "AttributeError", RetNone)
        ELSE IF h.left[par] = node
             THEN Res([h EXCEPT !.left[par] = child], "ok", RetNone)
             ELSE Res([h EXCEPT !.right[par] = child], "ok", RetNone)

delete(h, t, p) ==
    LET v == validate(h, t, p)
        node == p.node
    IN  IF v # "ok" THEN Res(h, v, RetNone)
        ELSE IF num_children(h, t, p).ret.num = 2
        THEN Res(h, "TwoChildren", RetNone)
        ELSE LET child == IF h.left[node] # None THEN h.left[node]
                          ELSE h.right[node]
                 h1 == IF child # None
                       THEN [h EXCEPT !.parent[child] = h.parent[node]]
                       ELSE h
                 u  == IF node = h1.root[t]
                       THEN Res([h1 EXCEPT !.root[t] = child], "ok", RetNone)
                       ELSE delete_unlink(h1, node, child)
             IN  IF u.status # "ok" THEN u
                 ELSE LET h3 == [u.h EXCEPT !.size[t] = @ - 1]
                          h4 == [h3 EXCEPT !.parent[node] = node]
                      IN  Res(h4, "ok", RetElem(h4.element[node]))

\* attach, lines 142-146 (side "left") and 147-151 (side "right"): move the
\* whole of src under node
attach_move(h, node, src, side) ==
    IF is_empty(h, src).ret.flag THEN Res(h, "ok", RetNone)
    ELSE IF h.root[src] = None THEN Res(h, "AttributeError", RetNone)
    ELSE LET h1 == [h EXCEPT !.parent[h.root[src]] = node]
             h2 == IF side = "left"
                   THEN [h1 EXCEPT !.left[node] = h1.root[src]]
                   ELSE [h1 EXCEPT !.right[node] = h1.root[src]]
             h3 == [h2 EXCEPT !.root[src] = None]
             h4 == [h3 EXCEPT !.size[src] = 0]
         IN  Res(h4, "ok", RetNone)

attach(h, t, p, ta, tb) ==
    LET v == validate(h, t, p)
        node == p.node
    IN  IF v # "ok" THEN Res(h, v, RetNone)
        ELSE IF ~is_leaf(h, t, p).ret.flag THEN Res(h, "NotLeaf", RetNone)
        ELSE IF ta \notin Trees \/ tb \notin Trees
        THEN Res(h, "TypeError", RetNone)
        ELSE IF len(h, ta).status # "ok" \/ len(h, tb).status # "ok"
        THEN Res(h, "ValueError", RetNone)
        ELSE LET h1 == [h EXCEPT !.size[t] = @ + len(h, ta).ret.num
                                                + len(h, tb).ret.num]
                 m1 == attach_move(h1, node, ta, "left")
                 m2 == attach_move(m1.h, node, tb, "right")
             IN  IF m1.status # "ok" THEN m1 ELSE m2

\* what consuming a generator gives: the elements yielded, and "ok" or the
\* error that ended it
Trav(status, out) == [status |-> status, out |-> out]

\* _subtree_preorder visiting the right subtree before the left one
RECURSIVE subtree_preorder_right_first(_, _, _, _)
subtree_preorder_right_first(h, t, p, path) ==
    IF p = NoPosition THEN Trav("AttributeError", <<>>)
    ELSE IF p.node \in path THEN Trav("RecursionError", <<>>)
    ELSE LET visit == <<element_of(h, p)>>
             r == tree_right(h, t, p)
             sr == IF r.ret.pos # NoPosition
                   THEN subtree_preorder_right_first(h, t, r.ret.pos,
                                                     path \cup {p.node})
                   ELSE Trav("ok", <<>>)
             l == tree_left(h, t, p)
             sl == IF l.ret.pos # NoPosition
                   THEN subtree_preorder_right_first(h, t, l.ret.pos,
                                                     path \cup {p.node})
                   ELSE Trav("ok", <<>>)
         IN  IF r.status # "ok" THEN Trav(r.status, visit)
             ELSE IF sr.status # "ok" THEN Trav(sr.status, visit \o sr.out)
             ELSE Trav(sl.status, visit \o sr.out \o sl.out)

\* _subtree_preorder(p), fully consumed.  `path` holds the nodes whose
\* generators are suspended around this one: when p's node is among them the
\* same calls repeat with one more frame each time, and Python ends the
\* traversal with RecursionError.
RECURSIVE subtree_preorder(_, _, _, _)
subtree_preorder(h, t, p, path) ==
    IF p = NoPosition THEN Trav("AttributeError", <<>>)
    ELSE IF p.node \in path THEN Trav("RecursionError", <<>>)
    ELSE LET visit == <<element_of(h, p)>>
             l == tree_left(h, t, p)
             sl == IF l.ret.pos # NoPosition
                   THEN subtree_preorder(h, t, l.ret.pos, path \cup {p.node})
                   ELSE Trav("ok", <<>>)
             r == tree_right(h, t, p)
             sr == IF r.ret.pos # NoPosition
                   THEN subtree_preorder(h, t, r.ret.pos, path \cup {p.node})
                   ELSE Trav("ok", <<>>)
         IN  IF l.status # "ok" THEN Trav(l.status, visit)
             ELSE IF sl.status # "ok" THEN Trav(sl.status, visit \o sl.out)
             ELSE Trav(sr.status, visit \o sl.out \o sr.out)

preorder(h, t) ==
    IF ~is_empty(h, t).ret.flag
    THEN subtree_preorder(h, t, tree_root(h, t).ret.pos, {})
    ELSE Trav("ok", <<>>)

\* _subtree_inorder(p), fully consumed; `path` as in subtree_preorder.
\* self.left(p) is the first thing it evaluates: None for p raises TypeError.
RECURSIVE subtree_inorder(_, _, _, _)
subtree_inorder(h, t, p, path) ==
    IF p # NoPosition /\ p.node \in path THEN Trav("RecursionError", <<>>)
    ELSE LET l == tree_left(h, t, p)
             sl == IF l.ret.pos # NoPosition
                   THEN subtree_inorder(h, t, l.ret.pos, path \cup {p.node})
                   ELSE Trav("ok", <<>>)
             visit == <<element_of(h, p)>>
             r == tree_right(h, t, p)
             sr == IF r.ret.pos # NoPosition
                   THEN subtree_inorder(h, t, r.ret.pos, path \cup {p.node})
                   ELSE Trav("ok", <<>>)
         IN  IF l.status # "ok" THEN Trav(l.status, <<>>)
             ELSE IF sl.status # "ok" THEN Trav(sl.status, sl.out)
             ELSE Trav(sr.status, sl.out \o visit \o sr.out)

inorder(h, t) ==
    IF ~is_empty(h, t).ret.flag
    THEN subtree_inorder(h, t, tree_root(h, t).ret.pos, {})
    ELSE Trav("ok", <<>>)

\* ---------------------------------------------------------- initial state

NoCall ==
    [op |-> "none", tree |-> "None", pos |-> NoPosition, e |-> NoElem,
     ta |-> "None", tb |-> "None"]

Call(op, t, p, e, ta, tb) ==
    [op |-> op, tree |-> t, pos |-> p, e |-> e, ta |-> ta, tb |-> tb]

\* what `last` keeps of a call c that ended with status s
Record(c, s) == [op |-> c.op, tree |-> c.tree, pos |-> c.pos, status |-> s]

Init ==
    /\ root = [t \in Trees |-> None]
    /\ size = [t \in Trees |-> 0]
    /\ element = [n \in Nodes |-> NoElem]
    /\ parent = [n \in Nodes |-> None]
    /\ left = [n \in Nodes |-> None]
    /\ right = [n \in Nodes |-> None]
    /\ nalloc = 0
    /\ issued = {}
    /\ deleted = {}
    /\ delete_acted = FALSE
    /\ last = Record(NoCall, "ok")

\* ------------------------------------------------------------------ calls

\* what a caller can pass where a Position is expected
Args == issued \cup {NoPosition}

\* _validate rejects a Position of another container before it reads the
\* node (line 36), so one of them stands for all in a call that validates
ArgsFor(t) ==
    LET own == {p \in issued : p.container = t}
        foreign == issued \ own
    IN  own \cup {NoPosition}
            \cup (IF foreign = {} THEN {} ELSE {CHOOSE p \in foreign : TRUE})

\* what a caller can pass to attach as a source
Sources == Trees \cup {NotATree}

\* the sizes and the number of objects stay within the bounds of the model
Within(h) ==
    /\ h.nalloc <= MaxNodes
    /\ \A t \in Trees : h.size[t] <= MaxSize /\ h.size[t] >= -MaxSize

\* The Positions a caller holding `held` can get in heap h with root(),
\* parent(), left() and right(): these calls change no object, and the
\* callers are taken to have made them all after every call.
RECURSIVE Obtainable(_, _)
Obtainable(h, held) ==
    LET valid == {q \in held : h.parent[q.node] # q.node}
        more == held
            \cup {Position(t, h.root[t]) : t \in {u \in Trees : h.root[u] # None}}
            \cup {Position(q.container, h.parent[q.node]) :
                    q \in {v \in valid : h.parent[v.node] # None}}
            \cup {Position(q.container, h.left[q.node]) :
                    q \in {v \in valid : h.left[v.node] # None}}
            \cup {Position(q.container, h.right[q.node]) :
                    q \in {v \in valid : h.right[v.node] # None}}
    IN  IF more = held THEN held ELSE Obtainable(h, more)

\* the call c completes with outcome r
Complete(c, r) ==
    /\ Within(r.h)
    /\ root' = r.h.root
    /\ size' = r.h.size
    /\ element' = r.h.element
    /\ parent' = r.h.parent
    /\ left' = r.h.left
    /\ right' = r.h.right
    /\ nalloc' = r.h.nalloc
    /\ issued' = IF r.h = Heap /\ r.ret.pos \in Args THEN issued
                 ELSE Obtainable(r.h, issued \cup ({r.ret.pos} \ {NoPosition}))
    /\ deleted' = IF c.op = "delete" /\ r.status = "ok"
                  THEN deleted \cup {c.pos} ELSE deleted
    /\ delete_acted' = (delete_acted \/ (c.op = "delete" /\ r.h # Heap))
    /\ last' = IF r.h = Heap THEN last ELSE Record(c, r.status)

\* the outcome of the call c in heap h
Outcome(h, c) ==
    CASE c.op = "len" -> len(h, c.tree)
      [] c.op = "is_empty" -> is_empty(h, c.tree)
      [] c.op = "root" -> tree_root(h, c.tree)
      [] c.op = "parent" -> tree_parent(h, c.tree, c.pos)
      [] c.op = "left" -> tree_left(h, c.tree, c.pos)
      [] c.op = "right" -> tree_right(h, c.tree, c.pos)
      [] c.op = "num_children" -> num_children(h, c.tree, c.pos)
      [] c.op = "is_root" -> is_root(h, c.tree, c.pos)
      [] c.op = "is_leaf" -> is_leaf(h, c.tree, c.pos)
      [] c.op = "add_root" -> add_root(h, c.tree, c.e)
      [] c.op = "add_left" -> add_left(h, c.tree, c.pos, c.e)
      [] c.op = "add_right" -> add_right(h, c.tree, c.pos, c.e)
      [] c.op = "replace" -> replace(h, c.tree, c.pos, c.e)
      [] c.op = "delete" -> delete(h, c.tree, c.pos)
      [] c.op = "attach" -> attach(h, c.tree, c.pos, c.ta, c.tb)

Do(c) == Complete(c, Outcome(Heap, c))

TreeLen(t) == Do(Call("len", t, NoPosition, NoElem, "None", "None"))

IsEmpty(t) == Do(Call("is_empty", t, NoPosition, NoElem, "None", "None"))

Root(t) == Do(Call("root", t, NoPosition, NoElem, "None", "None"))

Parent(t, p) == Do(Call("parent", t, p, NoElem, "None", "None"))

Left(t, p) == Do(Call("left", t, p, NoElem, "None", "None"))

Right(t, p) == Do(Call("right", t, p, NoElem, "None", "None"))

NumChildren(t, p) == Do(Call("num_children", t, p, NoElem, "None", "None"))

IsRoot(t, p) == Do(Call("is_root", t, p, NoElem, "None", "None"))

IsLeaf(t, p) == Do(Call("is_leaf", t, p, NoElem, "None", "None"))

AddRoot(t, e) == Do(Call("add_root", t, NoPosition, e, "None", "None"))

AddLeft(t, p, e) == Do(Call("add_left", t, p, e, "None", "None"))

AddRight(t, p, e) == Do(Call("add_right", t, p, e, "None", "None"))

Replace(t, p, e) == Do(Call("replace", t, p, e, "None", "None"))

Delete(t, p) == Do(Call("delete", t, p, NoElem, "None", "None"))

Attach(t, p, ta, tb) == Do(Call("attach", t, p, NoElem, ta, tb))

\* a traversal is consumed to its end, or to the error that ends it: it
\* changes no object
Consume(r) ==
    /\ r.status \in {"ok", "TypeError", "InvalidPosition", "AttributeError",
                     "RecursionError"}
    /\ UNCHANGED vars

Preorder(t) == Consume(preorder(Heap, t))

Inorder(t) == Consume(inorder(Heap, t))

Next ==
    \/ \E t \in Trees : TreeLen(t)
    \/ \E t \in Trees : IsEmpty(t)
    \/ \E t \in Trees : Root(t)
    \/ \E t \in Trees : \E p \in ArgsFor(t) : Parent(t, p)
    \/ \E t \in Trees : \E p \in ArgsFor(t) : Left(t, p)
    \/ \E t \in Trees : \E p \in ArgsFor(t) : Right(t, p)
    \/ \E t \in Trees : \E p \in ArgsFor(t) : NumChildren(t, p)
    \/ \E t \in Trees, p \in Args : IsRoot(t, p)
    \/ \E t \in Trees : \E p \in ArgsFor(t) : IsLeaf(t, p)
    \/ \E t \in Trees, e \in Elems : AddRoot(t, e)
    \/ \E t \in Trees : \E p \in ArgsFor(t), e \in Elems : AddLeft(t, p, e)
    \/ \E t \in Trees : \E p \in ArgsFor(t), e \in Elems : AddRight(t, p, e)
    \/ \E t \in Trees : \E p \in ArgsFor(t), e \in Elems : Replace(t, p, e)
    \/ \E t \in Trees : \E p \in ArgsFor(t) : Delete(t, p)
    \/ \E t \in Trees : \E p \in ArgsFor(t), ta \in Sources, tb \in Sources :
          Attach(t, p, ta, tb)
    \/ \E t \in Trees : Preorder(t)
    \/ \E t \in Trees : Inorder(t)

Spec == Init /\ [][Next]_vars

\* the call c takes effect with outcome r
Commit(c, r) ==
    /\ root' = r.h.root
    /\ size' = r.h.size
    /\ element' = r.h.element
    /\ parent' = r.h.parent
    /\ left' = r.h.left
    /\ right' = r.h.right
    /\ nalloc' = r.h.nalloc
    /\ issued' = IF r.h = Heap /\ r.ret.pos \in Args THEN issued
                 ELSE Obtainable(r.h, issued \cup ({r.ret.pos} \ {NoPosition}))
    /\ deleted' = IF c.op = "delete" /\ r.status = "ok"
                  THEN deleted \cup {c.pos} ELSE deleted
    /\ delete_acted' = (delete_acted \/ (c.op = "delete" /\ r.h # Heap))
    /\ last' = IF r.h = Heap THEN last ELSE Record(c, r.status)

\* ------------------------------------------- trees built by the add calls

\* the elements of the traversal test, in the order it adds them
Letters == <<"A", "B", "C", "D", "E", "F", "G">>
\* the element given to the k-th node created
Letter(k) == Letters[((k - 1) % Len(Letters)) + 1]

\* the objects of such a run, and one more (as in Nodes)
BuildNodes == 1..(MaxBuild + 1)

InitBuild ==
    /\ root = [t \in Trees |-> None]
    /\ size = [t \in Trees |-> 0]
    /\ element = [n \in BuildNodes |-> NoElem]
    /\ parent = [n \in BuildNodes |-> None]
    /\ left = [n \in BuildNodes |-> None]
    /\ right = [n \in BuildNodes |-> None]
    /\ nalloc = 0
    /\ issued = {}
    /\ deleted = {}
    /\ delete_acted = FALSE
    /\ last = Record(NoCall, "ok")

\* a call of a run that creates at most MaxBuild objects
BuildStep(c) ==
    LET r == Outcome(Heap, c)
    IN  r.h.nalloc <= MaxBuild /\ Commit(c, r)

BuildRoot ==
    BuildStep(Call("add_root", "tree", NoPosition, Letter(nalloc + 1),
                   "None", "None"))

BuildLeft(p) ==
    BuildStep(Call("add_left", "tree", p, Letter(nalloc + 1), "None", "None"))

BuildRight(p) ==
    BuildStep(Call("add_right", "tree", p, Letter(nalloc + 1), "None", "None"))

NextBuild ==
    \/ BuildRoot
    \/ \E p \in Args : BuildLeft(p)
    \/ \E p \in Args : BuildRight(p)

SpecBuild == InitBuild /\ [][NextBuild]_vars

\* ------------------------------------------------- one container on its own

\* the objects of such a run, and one more (as in Nodes)
SingleNodes == 1..(MaxSingle + 1)

InitSingle ==
    /\ root = [t \in Trees |-> None]
    /\ size = [t \in Trees |-> 0]
    /\ element = [n \in SingleNodes |-> NoElem]
    /\ parent = [n \in SingleNodes |-> None]
    /\ left = [n \in SingleNodes |-> None]
    /\ right = [n \in SingleNodes |-> None]
    /\ nalloc = 0
    /\ issued = {}
    /\ deleted = {}
    /\ delete_acted = FALSE
    /\ last = Record(NoCall, "ok")

\* a call of a run that creates at most MaxSingle objects
SingleStep(c) ==
    LET r == Outcome(Heap, c)
    IN  r.h.nalloc <= MaxSingle /\ Commit(c, r)

SingleAddRoot(e) ==
    SingleStep(Call("add_root", "tree", NoPosition, e, "None", "None"))

SingleAddLeft(p, e) ==
    SingleStep(Call("add_left", "tree", p, e, "None", "None"))

SingleAddRight(p, e) ==
    SingleStep(Call("add_right", "tree", p, e, "None", "None"))

SingleReplace(p, e) ==
    SingleStep(Call("replace", "tree", p, e, "None", "None"))

SingleDelete(p) ==
    SingleStep(Call("delete", "tree", p, NoElem, "None", "None"))

\* `tree` is the only container used, so issued holds Positions of tree only
NextSingle ==
    \/ \E e \in Elems : SingleAddRoot(e)
    \/ \E p \in Args, e \in Elems : SingleAddLeft(p, e)
    \/ \E p \in Args, e \in Elems : SingleAddRight(p, e)
    \/ \E p \in Args, e \in Elems : SingleReplace(p, e)
    \/ \E p \in Args : SingleDelete(p)

SpecSingle == InitSingle /\ [][NextSingle]_vars

\* ------------------------------------------------------ auxiliary notions

\* the nodes reachable from the nodes of S through _left and _right
RECURSIVE ReachFrom(_, _)
ReachFrom(h, S) ==
    LET more == (S \cup {h.left[n] : n \in S} \cup {h.right[n] : n \in S})
                    \ {None}
    IN  IF more = S THEN S ELSE ReachFrom(h, more)

\* the nodes reachable from the root of container t
Reach(h, t) == IF h.root[t] = None THEN {} ELSE ReachFrom(h, {h.root[t]})

\* the calls a caller can make in the current state
Calls ==
    {Call(op, t, NoPosition, NoElem, "None", "None") :
            op \in {"len", "is_empty", "root"}, t \in Trees}
    \cup {Call(op, t, p, NoElem, "None", "None") :
            op \in {"parent", "left", "right", "num_children", "is_root",
                    "is_leaf", "delete"},
            t \in Trees, p \in Args}
    \cup {Call("add_root", t, NoPosition, e, "None", "None") :
            t \in Trees, e \in Elems}
    \cup {Call(op, t, p, e, "None", "None") :
            op \in {"add_left", "add_right", "replace"},
            t \in Trees, p \in Args, e \in Elems}
    \cup {Call("attach", t, p, NoElem, ta, tb) :
            t \in Trees, p \in Args, ta \in Sources, tb \in Sources}

\* the calls that take the Position p as their argument
CallsWith(p) == {c \in Calls : c.pos = p}

\* the node n has the same element and links in h and in g
SameNode(h, g, n) ==
    /\ h.element[n] = g.element[n]
    /\ h.parent[n] = g.parent[n]
    /\ h.left[n] = g.left[n]
    /\ h.right[n] = g.right[n]

\* ------------------------------------------------------------------ claims

\* C1: in every reachable state the size of each container is non-negative
\* and equals the number of nodes reachable from its root.
C1_SizeCountsReachable ==
    \A t \in Trees :
        /\ size[t] >= 0
        /\ len(Heap, t).status = "ok"
        /\ len(Heap, t).ret.num = Cardinality(Reach(Heap, t))

\* C2: in every reachable state, for each container, is_empty() holds if and
\* only if root() is absent.
C2_EmptyIffNoRoot ==
    \A t \in Trees :
        is_empty(Heap, t).ret.flag <=> (tree_root(Heap, t).ret.pos = NoPosition)

\* C3: once delete(p) has succeeded on a container, every call of that
\* container that takes p (parent, left, right, num_children, is_root,
\* is_leaf, add_left, add_right, replace, delete, attach) fails with the
\* invalid-position error and changes nothing.
C3_DeletedPositionRejected ==
    \A p \in deleted :
        \A c \in {d \in CallsWith(p) : d.tree = p.container} :
            /\ Outcome(Heap, c).status = "InvalidPosition"
            /\ Outcome(Heap, c).h = Heap

\* C4: every call that fails leaves every container exactly as it was: same
\* size, root, links and elements (so every valid Position stays valid).
C4_FailedCallChangesNothing ==
    \A c \in Calls :
        Outcome(Heap, c).status \in Errors => Outcome(Heap, c).h = Heap

\* C5: a call on one container never changes the root, the size, or the
\* links and elements of the nodes owned by another container, except that
\* attach empties the two sources it is given.
C5_OtherContainersUntouched ==
    \A c \in Calls :
        LET r == Outcome(Heap, c)
            touched == {c.tree} \cup (IF c.op = "attach" THEN {c.ta, c.tb} ELSE {})
        IN  \A t \in Trees \ touched :
                /\ r.h.root[t] = root[t]
                /\ r.h.size[t] = size[t]
                /\ \A n \in Reach(Heap, t) : SameNode(Heap, r.h, n)

\* the nodes other than those of `but` are the same in h and in g, and so
\* are the roots and sizes of the containers other than t
SameBut(h, g, t, but) ==
    /\ \A n \in (1..h.nalloc) \ but : SameNode(h, g, n)
    /\ \A u \in Trees \ {t} : g.root[u] = h.root[u] /\ g.size[u] = h.size[u]

\* C6: attach(p, t1, t2) with p a valid leaf of tree and tree, t1, t2 three
\* distinct containers leaves t1 and t2 empty with no root, adds their former
\* sizes to len(tree), sets left(p), right(p) to their former roots (a slot
\* stays unset when its source was empty), and every node formerly reachable
\* in t1 or t2 is then reachable from tree's root under p.
C6_AttachTransfers ==
    \A t \in Trees, ta \in Trees, tb \in Trees :
        \A p \in Args :
            LET r == attach(Heap, t, p, ta, tb)
            IN  ( /\ t # ta /\ t # tb /\ ta # tb
                  /\ validate(Heap, t, p) = "ok"
                  /\ is_leaf(Heap, t, p).ret.flag )
                => /\ r.status = "ok"
                   /\ len(r.h, ta).ret.num = 0 /\ len(r.h, tb).ret.num = 0
                   /\ is_empty(r.h, ta).ret.flag /\ is_empty(r.h, tb).ret.flag
                   /\ tree_root(r.h, ta).ret.pos = NoPosition
                   /\ tree_root(r.h, tb).ret.pos = NoPosition
                   /\ len(r.h, t).status = "ok"
                   /\ len(r.h, t).ret.num = size[t] + size[ta] + size[tb]
                   /\ tree_left(r.h, t, p).ret.pos = make_position(t, root[ta])
                   /\ tree_right(r.h, t, p).ret.pos = make_position(t, root[tb])
                   /\ (Reach(Heap, ta) \cup Reach(Heap, tb))
                          \subseteq (ReachFrom(r.h, {p.node}) \cap Reach(r.h, t))

\* C7: delete(p) on a valid node with at most one child returns the node's
\* element, decrements size by exactly 1, and puts the node's single child
\* (or nothing) into the slot the node occupied: the same slot of its former
\* parent, or the root reference when the node was the root; the promoted
\* child's parent becomes the node's former parent, and all other nodes and
\* links are unchanged.
C7_DeletePromotesChild ==
    \A t \in Trees :
        \A p \in Args :
            LET r == delete(Heap, t, p)
                n == p.node
                child == IF left[n] # None THEN left[n] ELSE right[n]
                par == parent[n]
            IN  ( /\ validate(Heap, t, p) = "ok"
                  /\ num_children(Heap, t, p).ret.num <= 1 )
                => /\ r.status = "ok"
                   /\ r.ret.elem = element[n]
                   /\ r.h.size[t] = size[t] - 1
                   /\ IF n = root[t] THEN r.h.root[t] = child
                      ELSE /\ r.h.root[t] = root[t]
                           /\ par # None
                           /\ left[par] = n => r.h.left[par] = child
                           /\ right[par] = n => r.h.right[par] = child
                   /\ child # None => r.h.parent[child] = par
                   /\ SameBut(Heap, r.h, t, {n, child, par})
                   /\ r.h.element = element
                   /\ \A m \in {child} \ {None, n} :
                        r.h.left[m] = left[m] /\ r.h.right[m] = right[m]
                   /\ \A m \in {par} \ {None, n} :
                        /\ r.h.parent[m] = parent[m]
                        /\ left[m] # n => r.h.left[m] = left[m]
                        /\ right[m] # n => r.h.right[m] = right[m]

\* C8: in an execution in which delete is never called, every Position a
\* container has returned is accepted by that container's validation in
\* every later state, whatever other calls, attach included, are made.
\* (A delete call that raises before it changes anything leaves no trace:
\* the states of a run with such calls are those of the run without them.)
C8_ValidUntilDelete ==
    ~delete_acted => \A p \in issued : validate(Heap, p.container, p) = "ok"

\* C9: after every completed call, for every node n reachable from a
\* container's root: a left child of n has parent n, a right child of n has
\* parent n, the root's parent is None, and no node is the child of two slots.
C9_LinksConsistent ==
    LET live == UNION {Reach(Heap, t) : t \in Trees}
    IN  /\ \A n \in live :
            /\ left[n] # None => parent[left[n]] = n
            /\ right[n] # None => parent[right[n]] = n
            /\ left[n] # None => left[n] # right[n]
        /\ \A t \in Trees : root[t] # None => parent[root[t]] = None
        /\ \A n \in live, m \in live :
            n # m => \A c \in {left[n], right[n]} \ {None} :
                        c \notin {left[m], right[m]}

\* C10: add_left(p, e) on a valid p fails with the child-exists error exactly
\* when p's left slot is occupied, whatever the right slot holds; otherwise
\* it returns a Position q with q.element() = e, left(p) == q, parent(q) == p,
\* q a leaf, size increased by exactly 1 and every other node, link and
\* element unchanged.  add_right is the same with left and right exchanged.
C10_AddChild ==
    \A t \in Trees, e \in Elems :
        \A p \in Args :
            LET n == p.node
                rl == add_left(Heap, t, p, e)
                rr == add_right(Heap, t, p, e)
                Added(r, q) ==
                    /\ r.status = "ok"
                    /\ q # NoPosition /\ q.node \notin 1..nalloc
                    /\ q \notin issued
                    /\ element_of(r.h, q) = e
                    /\ position_eq(tree_parent(r.h, t, q).ret.pos, p)
                    /\ tree_parent(r.h, t, q).status = "ok"
                    /\ is_leaf(r.h, t, q).status = "ok"
                    /\ is_leaf(r.h, t, q).ret.flag
                    /\ r.h.size[t] = size[t] + 1
                    /\ r.h.nalloc = nalloc + 1
                    /\ SameBut(Heap, r.h, t, {n})
                    /\ r.h.root[t] = root[t]
                    /\ r.h.element[n] = element[n]
                    /\ r.h.parent[n] = parent[n]
            IN  validate(Heap, t, p) = "ok" =>
                  /\ IF left[n] # None
                     THEN rl.status = "ChildExists" /\ rl.h = Heap
                     ELSE /\ Added(rl, rl.ret.pos)
                          /\ position_eq(tree_left(rl.h, t, p).ret.pos, rl.ret.pos)
                          /\ rl.h.right[n] = right[n]
                  /\ IF right[n] # None
                     THEN rr.status = "ChildExists" /\ rr.h = Heap
                     ELSE /\ Added(rr, rr.ret.pos)
                          /\ position_eq(tree_right(rr.h, t, p).ret.pos, rr.ret.pos)
                          /\ rr.h.left[n] = left[n]

\* add_right has just succeeded on a valid Position p whose left slot is
\* empty: add_left(p, e) is then called with the other slot occupied, and
\* add_right(p, e) with its own slot occupied
C10_Witness ==
    /\ last.op = "add_right" /\ last.status = "ok"
    /\ validate(Heap, last.tree, last.pos) = "ok"
    /\ right[last.pos.node] # None /\ left[last.pos.node] = None
    /\ add_left(Heap, last.tree, last.pos, "A").status = "ok"
    /\ add_right(Heap, last.tree, last.pos, "A").status = "ChildExists"

\* C11: add_root(e) succeeds exactly when is_empty() holds and fails with the
\* root-exists error otherwise; on success size becomes 1, the returned
\* Position equals root(), is_root of it is true, its element is e and it has
\* no children.
C11_AddRoot ==
    \A t \in Trees, e \in Elems :
        LET r == add_root(Heap, t, e)
            q == r.ret.pos
        IN  IF is_empty(Heap, t).ret.flag
            THEN /\ r.status = "ok"
                 /\ len(r.h, t).status = "ok" /\ len(r.h, t).ret.num = 1
                 /\ q # NoPosition
                 /\ position_eq(q, tree_root(r.h, t).ret.pos)
                 /\ is_root(r.h, t, q).ret.flag
                 /\ element_of(r.h, q) = e
                 /\ num_children(r.h, t, q).status = "ok"
                 /\ num_children(r.h, t, q).ret.num = 0
            ELSE r.status = "RootExists" /\ r.h = Heap

\* C12: replace(p, e) on a valid p never fails, returns the element the node
\* held before the call, makes p.element() = e afterwards, and leaves size,
\* root, every parent/left/right link and every other node's element
\* unchanged.
C12_Replace ==
    \A t \in Trees, e \in Elems :
        \A p \in Args :
            LET r == replace(Heap, t, p, e)
            IN  validate(Heap, t, p) = "ok" =>
                  /\ r.status = "ok"
                  /\ r.ret.elem = element[p.node]
                  /\ element_of(r.h, p) = e
                  /\ r.h.size = size /\ r.h.root = root
                  /\ r.h.parent = parent /\ r.h.left = left
                  /\ r.h.right = right /\ r.h.nalloc = nalloc
                  /\ \A m \in Nodes \ {p.node} : r.h.element[m] = element[m]

\* replace has just stored "B" in a node that has a child, through a valid
\* Position, and replace(p, "A") on it would return "B"
C12_Witness ==
    /\ last.op = "replace" /\ last.status = "ok"
    /\ validate(Heap, last.tree, last.pos) = "ok"
    /\ element[last.pos.node] = "B"
    /\ left[last.pos.node] # None \/ right[last.pos.node] # None
    /\ replace(Heap, last.tree, last.pos, "A").ret.elem = "B"
    /\ replace(Heap, last.tree, last.pos, "A").h # Heap

\* preorder as the specification defines it: the node, then its whole left
\* subtree, then its whole right subtree
RECURSIVE RefPreorder(_, _)
RefPreorder(h, n) ==
    IF n = None THEN <<>>
    ELSE <<h.element[n]>> \o RefPreorder(h, h.left[n])
                          \o RefPreorder(h, h.right[n])

\* inorder as the specification defines it: the whole left subtree, then the
\* node, then the whole right subtree
RECURSIVE RefInorder(_, _)
RefInorder(h, n) ==
    IF n = None THEN <<>>
    ELSE RefInorder(h, h.left[n]) \o <<h.element[n]>>
                                  \o RefInorder(h, h.right[n])

\* the node reached from the root of t by the turns of path ("l" or "r"), or
\* None
RECURSIVE NodeAt(_, _, _)
NodeAt(h, n, path) ==
    IF n = None \/ path = <<>> THEN n
    ELSE NodeAt(h, IF Head(path) = "l" THEN h.left[n] ELSE h.right[n],
                Tail(path))

\* the tree of the traversal test: root A, left B, right C, B.left D,
\* B.right E, C.left F, C.right G, and nothing else
ExampleTree(h, t) ==
    LET At(path) == NodeAt(h, h.root[t], path)
        Holds(path, e) == At(path) # None /\ h.element[At(path)] = e
    IN  /\ Holds(<<>>, "A")
        /\ Holds(<<"l">>, "B") /\ Holds(<<"r">>, "C")
        /\ Holds(<<"l", "l">>, "D") /\ Holds(<<"l", "r">>, "E")
        /\ Holds(<<"r", "l">>, "F") /\ Holds(<<"r", "r">>, "G")
        /\ \A path \in {<<"l", "l">>, <<"l", "r">>, <<"r", "l">>, <<"r", "r">>} :
              h.left[At(path)] = None /\ h.right[At(path)] = None

\* C13: for every tree built by add_root/add_left/add_right, preorder()
\* yields the elements in the order node, whole left subtree, whole right
\* subtree, and inorder() in the order whole left subtree, node, whole right
\* subtree, each equal to the reference recursive definition; for root A,
\* left B, right C, B.left D, B.right E, C.left F, C.right G they yield
\* [A,B,D,E,C,F,G] and [D,B,E,A,F,C,G].
C13_Traversals ==
    LET pre == preorder(Heap, "tree")
        ino == inorder(Heap, "tree")
    IN  /\ pre.status = "ok" /\ ino.status = "ok"
        /\ pre.out = RefPreorder(Heap, root["tree"])
        /\ ino.out = RefInorder(Heap, root["tree"])
        /\ ExampleTree(Heap, "tree") =>
              /\ pre.out = <<"A", "B", "D", "E", "C", "F", "G">>
              /\ ino.out = <<"D", "B", "E", "A", "F", "C", "G">>

\* the tree of the traversal test has been built, its last node by
\* add_right, and both traversals yield its seven elements
C13_Witness ==
    /\ ExampleTree(Heap, "tree")
    /\ last.op = "add_right" /\ last.status = "ok"
    /\ Len(preorder(Heap, "tree").out) = 7
    /\ Len(inorder(Heap, "tree").out) = 7
    /\ preorder(Heap, "tree").out # inorder(Heap, "tree").out

\* in a run of SpecSingle: len(tree) is the number of objects created minus
\* the number of Positions deleted, and num_children(p) of every valid p is
\* the number of its left/right queries that return a Position
C14_Counts ==
    /\ len(Heap, "tree").status = "ok"
    /\ len(Heap, "tree").ret.num = nalloc - Cardinality(deleted)
    /\ \A p \in issued :
          validate(Heap, "tree", p) = "ok" =>
            /\ num_children(Heap, "tree", p).status = "ok"
            /\ num_children(Heap, "tree", p).ret.num =
                 (IF tree_left(Heap, "tree", p).ret.pos # NoPosition
                  THEN 1 ELSE 0)
                 + (IF tree_right(Heap, "tree", p).ret.pos # NoPosition
                    THEN 1 ELSE 0)

\* in a run of SpecSingle: a step that changes an object is a successful
\* call (recorded in last'); a successful add creates exactly one object, a
\* successful delete is of a Position not deleted before, and replace does
\* neither.  So nalloc is the number of successful add calls and the size of
\* `deleted` is the number of successful delete calls.
C14_Step ==
    /\ heapvars' # heapvars =>
          /\ last'.status = "ok"
          /\ last'.op \in {"add_root", "add_left", "add_right", "replace",
                           "delete"}
          /\ last'.op \in {"add_root", "add_left", "add_right"} =>
                nalloc' = nalloc + 1 /\ deleted' = deleted
          /\ last'.op = "replace" => nalloc' = nalloc /\ deleted' = deleted
          /\ last'.op = "delete" =>
                /\ nalloc' = nalloc
                /\ last'.pos \notin deleted
                /\ deleted' = deleted \cup {last'.pos}
    /\ heapvars' = heapvars => deleted' = deleted

\* C14: for a single container driven only by add_root, add_left, add_right,
\* replace and delete with Positions it issued itself, after any sequence of
\* calls len(tree) equals the number of successful add calls minus the number
\* of successful delete calls, and num_children(p) of every valid p equals
\* the number of its left/right queries that return a Position.
C14_LenIsAddsMinusDeletes == []C14_Counts /\ [][C14_Step]_vars

\* a delete has just succeeded, after three adds, and left a node whose only
\* child is its right one: len(tree) is 2 = 3 - 1 and num_children is 1
C14_Witness ==
    /\ last.op = "delete" /\ last.status = "ok"
    /\ nalloc = 3 /\ Cardinality(deleted) = 1
    /\ len(Heap, "tree").ret.num = 2
    /\ \E p \in issued :
          /\ validate(Heap, "tree", p) = "ok"
          /\ tree_left(Heap, "tree", p).ret.pos = NoPosition
          /\ tree_right(Heap, "tree", p).ret.pos # NoPosition
          /\ num_children(Heap, "tree", p).ret.num = 1

\* C15: a container's is_empty() changes from false to true only in a step
\* that is a successful delete of that container's root Position (a root
\* with no child left to promote) or in a step where the container is passed
\* as a source of attach; deleting any non-root node never makes the
\* container empty.
C15_EmptiedOnlyByRootDelete ==
    \A c \in Calls :
        LET r == Outcome(Heap, c)
        IN  \A t \in Trees :
                (~is_empty(Heap, t).ret.flag /\ is_empty(r.h, t).ret.flag)
                => \/ /\ c.op = "delete" /\ c.tree = t /\ r.status = "ok"
                      /\ tree_root(Heap, t).ret.pos # NoPosition
                      /\ position_eq(c.pos, tree_root(Heap, t).ret.pos)
                      /\ num_children(Heap, t, c.pos).ret.num = 0
                   \/ c.op = "attach" /\ t \in {c.ta, c.tb}

\* C16: in every state reachable by any sequence of public calls on any
\* number of containers, fully consuming preorder() or inorder() of any
\* container terminates without raising an error and yields exactly
\* len(container) elements, one per node reachable from its root; in
\* particular it yields nothing when the container has no root.
C16_TraversalsTotal ==
    \A t \in Trees :
        \A trav \in {preorder(Heap, t), inorder(Heap, t)} :
            /\ trav.status = "ok"
            /\ len(Heap, t).status = "ok"
            /\ Len(trav.out) = len(Heap, t).ret.num
            /\ Len(trav.out) = Cardinality(Reach(Heap, t))
            /\ tree_root(Heap, t).ret.pos = NoPosition => trav.out = <<>>
====
